---------------------------- MODULE Spec2Model ----------------------------
(***************************************************************************)
(* A model of ask_claude.py: the configuration resolver                    *)
(* (get_default_model, get_max_turns, is_web_enabled), main, and run_query *)
(* with its buffered and its streaming protocol.                           *)
(*                                                                         *)
(* Representation.  A Python str the program computes on is a sequence of  *)
(* one-character strings (<<"h","i">> is 'hi'), so that strip, lower,      *)
(* startswith, split, int and str are computed, not assumed.  An optional  *)
(* value is a sequence of length 0 (None) or 1.  A literal the program     *)
(* only passes on (a command-line flag, a format string) is an atom.       *)
(***************************************************************************)
EXTENDS Integers, Sequences, FiniteSets, TLC

(***************************************************************************)
(* Bounds of the model.                                                    *)
(***************************************************************************)
MaxConfigLines == 2   \* lines in the config file
MaxScript == 3        \* operations the child performs before it exits
PipeCap == 2          \* capacity of an OS pipe, in write units

(***************************************************************************)
(* Optional values.                                                        *)
(***************************************************************************)
None == <<>>
Some(v) == <<v>>
IsNone(o) == Len(o) = 0
Val(o) == o[1]

(***************************************************************************)
(* Python str operations on character sequences.                           *)
(***************************************************************************)
UpperChars == <<"A","B","C","D","E","F","G","H","I","J","K","L","M",
                "N","O","P","Q","R","S","T","U","V","W","X","Y","Z">>
LowerChars == <<"a","b","c","d","e","f","g","h","i","j","k","l","m",
                "n","o","p","q","r","s","t","u","v","w","x","y","z">>
DigitChars == <<"0","1","2","3","4","5","6","7","8","9">>

InList(x, list) == \E i \in 1..Len(list) : list[i] = x
IndexOf(x, list) == CHOOSE i \in 1..Len(list) : list[i] = x

LowerChar(c) == IF InList(c, UpperChars) THEN LowerChars[IndexOf(c, UpperChars)] ELSE c
UpperChar(c) == IF InList(c, LowerChars) THEN UpperChars[IndexOf(c, LowerChars)] ELSE c

\* str.lower()
Lower(s) == [i \in 1..Len(s) |-> LowerChar(s[i])]

\* str.capitalize(): first character upper-cased, the rest lower-cased
Capitalize(s) == [i \in 1..Len(s) |-> IF i = 1 THEN UpperChar(s[i]) ELSE LowerChar(s[i])]

IsSpace(c) == c \in {" ", "\n", "\t"}

RECURSIVE LStrip(_)
LStrip(s) == IF s # <<>> /\ IsSpace(Head(s)) THEN LStrip(Tail(s)) ELSE s

RECURSIVE RStrip(_)
RStrip(s) == IF s # <<>> /\ IsSpace(s[Len(s)]) THEN RStrip(SubSeq(s, 1, Len(s) - 1)) ELSE s

\* str.strip()
Strip(s) == RStrip(LStrip(s))

\* str.startswith(p)
StartsWith(s, p) == Len(s) >= Len(p) /\ SubSeq(s, 1, Len(p)) = p

\* s.split('=', 1)[1]: what follows the first '=' (callers guarantee one)
SplitEq1(s) ==
    LET k == CHOOSE i \in 1..Len(s) : s[i] = "=" /\ \A j \in 1..(i - 1) : s[j] # "="
    IN  SubSeq(s, k + 1, Len(s))

RECURSIVE StrNat(_)
StrNat(n) == IF n < 10 THEN <<DigitChars[n + 1]>>
             ELSE StrNat(n \div 10) \o <<DigitChars[(n % 10) + 1]>>

\* str(n) for an int
Str(n) == IF n < 0 THEN <<"-">> \o StrNat(-n) ELSE StrNat(n)

IsDigit(c) == InList(c, DigitChars)

RECURSIVE DigitsValue(_, _)
DigitsValue(s, acc) ==
    IF s = <<>> THEN acc
    ELSE IF Head(s) = "_" THEN DigitsValue(Tail(s), acc)
    ELSE DigitsValue(Tail(s), 10 * acc + (IndexOf(Head(s), DigitChars) - 1))

\* the digit part int() accepts: digits, single underscores between digits
IsIntBody(b) ==
    /\ b # <<>>
    /\ \A i \in 1..Len(b) : IsDigit(b[i]) \/ b[i] = "_"
    /\ IsDigit(b[1]) /\ IsDigit(b[Len(b)])
    /\ \A i \in 1..(Len(b) - 1) : ~(b[i] = "_" /\ b[i + 1] = "_")

\* int(s): None stands for ValueError
ParseInt(s) ==
    LET t == Strip(s)
        signed == t # <<>> /\ Head(t) \in {"+", "-"}
        body == IF signed THEN Tail(t) ELSE t
    IN  IF ~IsIntBody(body) THEN None
        ELSE IF signed /\ Head(t) = "-" THEN Some(0 - DigitsValue(body, 0))
        ELSE Some(DigitsValue(body, 0))

\* f"{x:.<d>f}" of a non-negative quantity held in units of 10^-d
RECURSIVE Pow10(_)
Pow10(d) == IF d = 0 THEN 1 ELSE 10 * Pow10(d - 1)

RECURSIVE ZeroPad(_, _)
ZeroPad(s, d) == IF Len(s) >= d THEN s ELSE ZeroPad(<<"0">> \o s, d)

FormatFixed(units, d) ==
    StrNat(units \div Pow10(d)) \o <<".">> \o ZeroPad(StrNat(units % Pow10(d)), d)

(***************************************************************************)
(* Program constants.                                                      *)
(***************************************************************************)
Haiku == <<"h","a","i","k","u">>
Sonnet == <<"s","o","n","n","e","t">>
Opus == <<"o","p","u","s">>
\* the list ['haiku', 'sonnet', 'opus']
MODELS == <<Haiku, Sonnet, Opus>>

KeyDefaultModel == <<"d","e","f","a","u","l","t","_","m","o","d","e","l","=">>
KeyMaxTurns == <<"m","a","x","_","t","u","r","n","s","=">>
KeyEnableWeb == <<"e","n","a","b","l","e","_","w","e","b","=">>
TrueText == <<"t","r","u","e">>

(***************************************************************************)
(* The configuration resolver.  A config file is                           *)
(*   [access |-> "missing" | "statDenied" | "openDenied" | "undecodable"   *)
(*               | "ok", legacy |-> BOOLEAN, lines |-> Seq(line)]          *)
(* "statDenied": stat() of the path fails with EACCES; Path.exists() then  *)
(* re-raises PermissionError (legacy, Python < 3.14) or returns False.     *)
(* A call returns [raised |-> BOOLEAN, value |-> v].                       *)
(***************************************************************************)
Return(v) == [raised |-> FALSE, value |-> v]
Raise(e) == [raised |-> TRUE, value |-> e]

\* config_file.exists(): "true", "false" or "raise"
PathExists(cfg) ==
    CASE cfg.access = "missing" -> "false"
      [] cfg.access = "statDenied" -> IF cfg.legacy THEN "raise" ELSE "false"
      [] OTHER -> "true"

\* open(config_file) and the iteration over it raise inside the try block
ReadRaises(cfg) == cfg.access \in {"openDenied", "undecodable"}

\* os.environ.get('ASK_DEFAULT_MODEL', '')
EnvGet(environ) == IF IsNone(environ) THEN <<>> ELSE Val(environ)

RECURSIVE ScanDefaultModel(_)
ScanDefaultModel(lines) ==
    IF lines = <<>> THEN Sonnet
    ELSE LET line == Head(lines) IN
         IF StartsWith(Strip(line), KeyDefaultModel)
            /\ InList(Lower(Strip(SplitEq1(line))), MODELS)
         THEN Lower(Strip(SplitEq1(line)))
         ELSE ScanDefaultModel(Tail(lines))

\* a resolver that consults the config file before the environment variable
get_default_model_file_first(environ, cfg) ==
    LET default == Lower(EnvGet(environ))
        fromFile == IF PathExists(cfg) = "true" /\ ~ReadRaises(cfg)
                    THEN ScanDefaultModel(cfg.lines) ELSE Sonnet
    IN  CASE PathExists(cfg) = "raise" -> Raise("PermissionError")
          [] fromFile # Sonnet -> Return(fromFile)
          [] InList(default, MODELS) -> Return(default)
          [] OTHER -> Return(Sonnet)

get_default_model(environ, cfg) ==
    LET default == Lower(EnvGet(environ)) IN
    IF InList(default, MODELS) THEN Return(default)
    ELSE CASE PathExists(cfg) = "raise" -> Raise("PermissionError")
           [] PathExists(cfg) = "false" -> Return(Sonnet)
           [] OTHER -> IF ReadRaises(cfg) THEN Return(Sonnet)
                       ELSE Return(ScanDefaultModel(cfg.lines))

RECURSIVE ScanMaxTurns(_)
ScanMaxTurns(lines) ==
    IF lines = <<>> THEN None
    ELSE LET line == Head(lines) IN
         IF StartsWith(Strip(line), KeyMaxTurns)
         THEN ParseInt(Strip(SplitEq1(line)))
         ELSE ScanMaxTurns(Tail(lines))

get_max_turns(cfg) ==
    CASE PathExists(cfg) = "raise" -> Raise("PermissionError")
      [] PathExists(cfg) = "false" -> Return(None)
      [] OTHER -> IF ReadRaises(cfg) THEN Return(None)
                  ELSE Return(ScanMaxTurns(cfg.lines))

RECURSIVE ScanEnableWeb(_)
ScanEnableWeb(lines) ==
    IF lines = <<>> THEN FALSE
    ELSE LET line == Head(lines) IN
         IF StartsWith(Strip(line), KeyEnableWeb)
         THEN Lower(Strip(SplitEq1(line))) = TrueText
         ELSE ScanEnableWeb(Tail(lines))

is_web_enabled(cfg) ==
    CASE PathExists(cfg) = "raise" -> Raise("PermissionError")
      [] PathExists(cfg) = "false" -> Return(FALSE)
      [] OTHER -> IF ReadRaises(cfg) THEN Return(FALSE)
                  ELSE Return(ScanEnableWeb(cfg.lines))


(***************************************************************************)
(* JSON values, as json.loads returns them.  JInvalid stands for a line    *)
(* json.loads rejects with JSONDecodeError, JList for a non-empty list.    *)
(* A number is held in units of 10^-4 (total_cost_usd 0.0021 is JNum(21)). *)
(***************************************************************************)
JInvalid == [t |-> "invalid"]
JNull == [t |-> "null"]
JList == [t |-> "list"]
JNum(n) == [t |-> "num", n |-> n]
JStr(s) == [t |-> "str", s |-> s]
JObj(f) == [t |-> "obj", f |-> f]
EmptyObj == [t |-> "obj", f |-> <<>>]

STREAM_EVENT == <<"s","t","r","e","a","m","_","e","v","e","n","t">>
CONTENT_BLOCK_DELTA == <<"c","o","n","t","e","n","t","_","b","l","o","c","k","_",
                         "d","e","l","t","a">>
TEXT_DELTA == <<"t","e","x","t","_","d","e","l","t","a">>
RESULT == <<"r","e","s","u","l","t">>

\* only a dict has .get; on any other value .get raises AttributeError
HasGet(v) == v.t = "obj"
\* d.get(key, default)
Get(d, key, default) == IF key \in DOMAIN d.f THEN d.f[key] ELSE default
\* v == '<literal>'
StrEq(v, lit) == v.t = "str" /\ v.s = lit
\* bool(v)
Truthy(v) ==
    CASE v.t = "null" -> FALSE
      [] v.t = "num" -> v.n # 0
      [] v.t = "str" -> v.s # <<>>
      [] v.t = "obj" -> DOMAIN v.f # {}
      [] OTHER -> TRUE
\* str(v), as print(v) writes it, for v a string or null
PyStr(v) == IF v.t = "str" THEN v.s ELSE <<"N","o","n","e">>

(***************************************************************************)
(* The body of the streaming loop for one line: what the line does.        *)
(*   "continue": JSONDecodeError, caught, next line                        *)
(*   "raise":    AttributeError, leaves the loop for except Exception      *)
(*   "text":     a text_delta fragment        "cost": a result event       *)
(*   "none":     no branch taken                                           *)
(***************************************************************************)
ProcessLine(data) ==
    IF data.t = "invalid" THEN [kind |-> "continue"]
    ELSE IF ~HasGet(data) THEN [kind |-> "raise"]
    ELSE IF StrEq(Get(data, "type", JNull), STREAM_EVENT) THEN
        LET event == Get(data, "event", EmptyObj) IN
        IF ~HasGet(event) THEN [kind |-> "raise"]
        ELSE IF StrEq(Get(event, "type", JNull), CONTENT_BLOCK_DELTA) THEN
            LET delta == Get(event, "delta", EmptyObj) IN
            IF ~HasGet(delta) THEN [kind |-> "raise"]
            ELSE IF StrEq(Get(delta, "type", JNull), TEXT_DELTA)
                 THEN [kind |-> "text", text |-> Get(delta, "text", JStr(<<>>))]
                 ELSE [kind |-> "none"]
        ELSE [kind |-> "none"]
    ELSE IF StrEq(Get(data, "type", JNull), RESULT)
         THEN [kind |-> "cost", cost |-> Get(data, "total_cost_usd", JNum(0))]
         ELSE [kind |-> "none"]

(***************************************************************************)
(* The child's command line: a literal flag is Lit, a computed string Txt. *)
(***************************************************************************)
Lit(a) == [lit |-> a]
Txt(s) == [txt |-> s]

BuildCmd(prompt_, model_, system_prompt, max_turns_, web, use_streaming) ==
    <<Lit("claude"), Lit("-p")>>
    \o (IF model_ # <<>> THEN <<Lit("--model"), Txt(model_)>> ELSE <<>>)
    \o (IF ~IsNone(max_turns_) THEN <<Lit("--max-turns"), Txt(Str(Val(max_turns_)))>> ELSE <<>>)
    \o (IF web THEN <<Lit("--allowed-tools"), Lit("Bash,Read,Grep,Glob,WebSearch,WebFetch")>>
        ELSE <<>>)
    \o (IF use_streaming
        THEN <<Lit("--output-format"), Lit("stream-json"),
               Lit("--include-partial-messages"), Lit("--verbose")>>
        ELSE <<>>)
    \o (IF ~IsNone(system_prompt) /\ Val(system_prompt) # <<>>
        THEN <<Lit("--system-prompt"), Txt(Val(system_prompt))>>
        ELSE <<Lit("--system-prompt"), Lit("DEFAULT_SYSTEM_PROMPT")>>)
    \o <<Txt(prompt_)>>


(***************************************************************************)
(* State.                                                                  *)
(*   The environment of one run (fixed by Init):                           *)
(*     argv      [prompt, model, system]: the parsed command line          *)
(*     environ   the value of ASK_DEFAULT_MODEL, None when unset           *)
(*     config    the file ~/.ask/config                                    *)
(*     stdin     [tty, text]: sys.stdin                                    *)
(*     stdoutTty sys.stdout.isatty()                                       *)
(*     child     the external tool: [installed, slow, code, text, diag,    *)
(*               script]; text and diag are what it writes to stdout and   *)
(*               stderr without stream-json, script what it does with it   *)
(*   The program:                                                          *)
(*     pc, prompt, model, max_turns, cmd, total_cost, response_lines,      *)
(*     returncode, stdout, stderr (what it has printed), exitStatus        *)
(*   The child process and its pipes in streaming mode:                    *)
(*     childState, childIp (next operation), childOff (units of it         *)
(*     written), outPipe (lines not yet read), errPipe (units not read)    *)
(***************************************************************************)
VARIABLES argv, environ, config, stdin, stdoutTty, child,
          pc, prompt, model, max_turns, cmd, total_cost, response_lines,
          returncode, stdout, stderr, exitStatus,
          childState, childIp, childOff, outPipe, errPipe

inputs == <<argv, environ, config, stdin, stdoutTty, child>>
locals == <<prompt, model, max_turns, cmd, total_cost, response_lines, returncode>>
outputs == <<stdout, stderr, exitStatus>>
process == <<childState, childIp, childOff, outPipe, errPipe>>
vars == <<inputs, pc, locals, outputs, process>>

(***************************************************************************)
(* Input values.                                                           *)
(***************************************************************************)
NL == <<"\n">>
Hi == <<"h","i">>
Gpt4 == <<"g","p","t","4">>
FortyTwo == <<" "," ","4","2"," "," ","\n">>
PermissionDenied == <<"p","e","r","m","i","s","s","i","o","n"," ","d","e","n","i","e","d">>
CostDiag == <<"c","o","s","t",":"," ","$","0",".","0","5">>
Foo == <<"f","o","o">>
Bar == <<"b","a","r">>

SeqsUpTo(S, n) == UNION {[1..k -> S] : k \in 0..n}

PromptArgs == {None, Some(<<>>), Some(Hi)}
ModelArgs == {None, Some(Haiku), Some(Opus), Some(Gpt4)}
SystemArgs == {None, Some(<<>>), Some(<<"b","e"," ","b","r","i","e","f">>)}
EnvValues == {None, Some(Haiku), Some(<<"H","a","i","k","u">>), Some(Gpt4),
              Some(<<" ">> \o Opus)}
StdinTexts == {<<>>, <<" ", "\n">>, Hi \o NL, <<" ">> \o Hi \o <<" ", "\n">>}

ModelLines == {KeyDefaultModel \o Opus \o NL,
               <<" ">> \o KeyDefaultModel \o <<" ","H","A","I","K","U"," ">> \o NL,
               KeyDefaultModel \o Gpt4 \o NL,
               <<"#"," ">> \o KeyDefaultModel \o Haiku \o NL,
               KeyMaxTurns \o <<"3">> \o NL}
TurnLines == {KeyMaxTurns \o <<"5">> \o NL,
              KeyMaxTurns \o <<"0">> \o NL,
              KeyMaxTurns \o <<"-","3">> \o NL,
              KeyMaxTurns \o <<"a","b","c">> \o NL,
              <<" ">> \o KeyMaxTurns \o <<" ","1","_","2"," ">> \o NL,
              KeyEnableWeb \o <<"T","R","U","E">> \o NL,
              KeyEnableWeb \o <<"y","e","s">> \o NL}

NoFile(access, legacy) == [access |-> access, legacy |-> legacy, lines |-> <<>>]
File(lines) == [access |-> "ok", legacy |-> TRUE, lines |-> lines]
BrokenConfigs == {NoFile("missing", TRUE), NoFile("statDenied", TRUE),
                  NoFile("statDenied", FALSE), NoFile("openDenied", TRUE),
                  NoFile("undecodable", TRUE)}
Configs(lineSet) == BrokenConfigs \cup {File(l) : l \in SeqsUpTo(lineSet, MaxConfigLines)}

Delta(text) ==
    JObj([type |-> JStr(STREAM_EVENT),
          event |-> JObj([type |-> JStr(CONTENT_BLOCK_DELTA),
                          delta |-> JObj([type |-> JStr(TEXT_DELTA), text |-> JStr(text)])])])
DeltaNoText ==
    JObj([type |-> JStr(STREAM_EVENT),
          event |-> JObj([type |-> JStr(CONTENT_BLOCK_DELTA),
                          delta |-> JObj([type |-> JStr(TEXT_DELTA)])])])
DeltaNull ==
    JObj([type |-> JStr(STREAM_EVENT),
          event |-> JObj([type |-> JStr(CONTENT_BLOCK_DELTA), delta |-> JNull])])
EventNull == JObj([type |-> JStr(STREAM_EVENT), event |-> JNull])
EventMissing == JObj([type |-> JStr(STREAM_EVENT)])
MessageStart ==
    JObj([type |-> JStr(STREAM_EVENT),
          event |-> JObj([type |-> JStr(<<"m","e","s","s","a","g","e","_","s","t","a","r","t">>)])])
SystemEvent == JObj([type |-> JStr(<<"s","y","s","t","e","m">>)])
Result(cost) == JObj([type |-> JStr(RESULT), total_cost_usd |-> JNum(cost)])
ResultTextCost == JObj([type |-> JStr(RESULT), total_cost_usd |-> JStr(<<"n","/","a">>)])
ResultNoCost == JObj([type |-> JStr(RESULT)])

\* lines only the two recognized shapes or ones the loop steps over
PlainLines == {Delta(Foo), Delta(Bar), DeltaNoText, Result(21), ResultNoCost,
               ResultTextCost, JInvalid, EventMissing, MessageStart, SystemEvent}
\* well-formed JSON of another shape
OddLines == {JNum(5), JList, JStr(Foo), JNull, EventNull, DeltaNull}
StreamLines == PlainLines \cup OddLines

Out(line) == [fd |-> "out", line |-> line]
Err(n) == [fd |-> "err", n |-> n]
ChildOps == {Out(l) : l \in StreamLines} \cup {Err(1), Err(PipeCap + 1)}
Scripts == SeqsUpTo(ChildOps, MaxScript)

BaseArgv == [prompt |-> Some(Hi), model |-> None, system |-> None]
BaseStdin == [tty |-> TRUE, text |-> <<>>]
BaseChild == [installed |-> TRUE, slow |-> FALSE, code |-> 0,
              text |-> FortyTwo, diag |-> <<>>, script |-> <<>>]

(***************************************************************************)
(* Init: the program has not started.  The environment is drawn from five  *)
(* families, each varying the inputs one part of the program reads;        *)
(* InitStream draws every script of the child instead.                     *)
(***************************************************************************)
InitModelInputs ==
    /\ \E m \in ModelArgs : argv = [BaseArgv EXCEPT !.model = m]
    /\ environ \in EnvValues
    /\ config \in Configs(ModelLines)
    /\ stdin = BaseStdin /\ stdoutTty = FALSE /\ child = BaseChild

InitTurnInputs ==
    /\ argv = BaseArgv /\ environ = None
    /\ config \in Configs(TurnLines)
    /\ stdin = BaseStdin /\ stdoutTty \in BOOLEAN /\ child = BaseChild

InitPromptInputs ==
    /\ \E p \in PromptArgs, m \in {None, Some(Gpt4)}, s \in SystemArgs :
          argv = [prompt |-> p, model |-> m, system |-> s]
    /\ environ = None /\ config = NoFile("missing", TRUE)
    /\ \/ stdin = BaseStdin
       \/ \E t \in StdinTexts : stdin = [tty |-> FALSE, text |-> t]
    /\ stdoutTty \in BOOLEAN /\ child = BaseChild

InitBufferedInputs ==
    /\ \E m \in {None, Some(Opus)} : argv = [BaseArgv EXCEPT !.model = m]
    /\ environ = None /\ config = NoFile("missing", TRUE)
    /\ stdin = BaseStdin /\ stdoutTty = FALSE
    /\ \E i \in BOOLEAN, sl \in BOOLEAN, c \in {0, 2}, t \in {<<>>, FortyTwo},
          d \in {<<>>, PermissionDenied, CostDiag} :
          child = [installed |-> i, slow |-> sl, code |-> c, text |-> t, diag |-> d,
                   script |-> <<>>]

InitTerminalInputs ==
    /\ \E m \in {None, Some(Opus)} : argv = [BaseArgv EXCEPT !.model = m]
    /\ environ = None /\ config = NoFile("missing", TRUE)
    /\ stdin = BaseStdin /\ stdoutTty = TRUE
    /\ \E i \in BOOLEAN, c \in {0, 2}, sc \in SeqsUpTo(ChildOps, 1) :
          child = [BaseChild EXCEPT !.installed = i, !.code = c, !.script = sc]

\* the streaming protocol against every script of the child
InitStreamInputs ==
    /\ argv = BaseArgv /\ environ = None /\ config = NoFile("missing", TRUE)
    /\ stdin = BaseStdin
    /\ \/ /\ stdoutTty = TRUE
          /\ \E c \in {0, 2}, sc \in Scripts :
                child = [BaseChild EXCEPT !.code = c, !.script = sc]
       \/ /\ stdoutTty = FALSE
          /\ child = BaseChild

InitProgram ==
    /\ pc = "start"
    /\ prompt = None /\ model = None /\ max_turns = None /\ cmd = <<>>
    /\ total_cost = JNull /\ response_lines = <<>> /\ returncode = None
    /\ stdout = <<>> /\ stderr = <<>> /\ exitStatus = None
    /\ childState = "none" /\ childIp = 1 /\ childOff = 0
    /\ outPipe = <<>> /\ errPipe = 0

Init ==
    /\ \/ InitModelInputs
       \/ InitTurnInputs
       \/ InitPromptInputs
       \/ InitBufferedInputs
       \/ InitTerminalInputs
    /\ InitProgram

InitStream == InitStreamInputs /\ InitProgram


(***************************************************************************)
(* Output.  print(..., file=sys.stderr) of a format string appends         *)
(* [fmt |-> the format, args |-> the values substituted]; stdout is the    *)
(* text written to it.                                                     *)
(***************************************************************************)
Msg(fmt, args) == [fmt |-> fmt, args |-> args]
Exit(status) == pc' = "exit" /\ exitStatus' = Some(status)

\* an exception no handler catches: the interpreter prints it and exits 1
\* time.time() - start_time, in hundredths of a second
Elapsed == {7, 123}

MetaFmt == "\n[Claude {model.capitalize()} - {elapsed:.2f}s{cost_str}]"
BufferedMetaFmt == "\n[Claude {model.capitalize()} - {elapsed:.2f}s]"
NotFoundFmt == "Error: Claude CLI not found. Install with: npm install -g @anthropic-ai/claude-code"
TimeoutFmt == "Error: Claude CLI timed out after 30 seconds"
FailedFmt == "Error: Claude CLI failed: {result.stderr}"
ExceptionFmt == "Error: {e}"
NoPromptFmt == "Error: No prompt provided. Pipe input or provide as argument."
TracebackFmt == "Traceback (most recent call last): {}"

\* an exception no handler catches: the interpreter prints it and exits 1
Uncaught(e) ==
    /\ stderr' = Append(stderr, Msg(TracebackFmt, <<e>>))
    /\ Exit(1)

(***************************************************************************)
(* main, lines 232-238: argparse rejects a -m value outside choices.       *)
(***************************************************************************)
\* choices=['haiku', 'sonnet', 'opus'] of -m/--model
InvalidChoice == ~IsNone(argv.model) /\ ~InList(Val(argv.model), MODELS)

ParseArgs ==
    /\ pc = "start"
    /\ \/ /\ InvalidChoice
          /\ stderr' = Append(stderr, Msg("argument -m/--model: invalid choice: {}",
                                          <<Val(argv.model)>>))
          /\ Exit(2)
          /\ UNCHANGED stdout
       \/ /\ ~InvalidChoice
          /\ pc' = "prompt"
          /\ UNCHANGED outputs
    /\ UNCHANGED <<inputs, locals, process>>

(***************************************************************************)
(* main, lines 240-247: the prompt from the argument or from stdin.        *)
(***************************************************************************)
\* "if args.prompt": neither None nor ''
PromptGiven == ~IsNone(argv.prompt) /\ Val(argv.prompt) # <<>>

\* a main that reads stdin without asking whether it is a terminal
GetPromptNoTtyCheck ==
    /\ pc = "prompt"
    /\ prompt' = Some(IF PromptGiven THEN Val(argv.prompt) ELSE Strip(stdin.text))
    /\ pc' = "model"
    /\ UNCHANGED <<inputs, model, max_turns, cmd, total_cost, response_lines, returncode,
                   outputs, process>>

GetPrompt ==
    /\ pc = "prompt"
    /\ \/ /\ PromptGiven
          /\ prompt' = Some(Val(argv.prompt))
          /\ pc' = "model"
          /\ UNCHANGED outputs
       \/ /\ ~PromptGiven
          /\ stdin.tty
          /\ stderr' = Append(stderr, Msg(NoPromptFmt, <<>>))
          /\ Exit(1)
          /\ UNCHANGED <<prompt, stdout>>
       \/ /\ ~PromptGiven
          /\ ~stdin.tty
          /\ prompt' = Some(Strip(stdin.text))
          /\ pc' = "model"
          /\ UNCHANGED outputs
    /\ UNCHANGED <<inputs, model, max_turns, cmd, total_cost, response_lines, returncode,
                   process>>

(***************************************************************************)
(* main, lines 249-250: model = args.model or get_default_model().         *)
(***************************************************************************)
DetermineModel ==
    /\ pc = "model"
    /\ \/ /\ ~IsNone(argv.model)
          /\ model' = argv.model
          /\ pc' = "turns"
          /\ UNCHANGED outputs
       \/ /\ IsNone(argv.model)
          /\ ~get_default_model(environ, config).raised
          /\ model' = Some(get_default_model(environ, config).value)
          /\ pc' = "turns"
          /\ UNCHANGED outputs
       \/ /\ IsNone(argv.model)
          /\ get_default_model(environ, config).raised
          /\ Uncaught(get_default_model(environ, config).value)
          /\ UNCHANGED <<model, stdout>>
    /\ UNCHANGED <<inputs, prompt, max_turns, cmd, total_cost, response_lines, returncode,
                   process>>

(***************************************************************************)
(* main, lines 252-253: max_turns = get_max_turns().                       *)
(***************************************************************************)
GetMaxTurns ==
    /\ pc = "turns"
    /\ \/ /\ ~get_max_turns(config).raised
          /\ max_turns' = get_max_turns(config).value
          /\ pc' = "build"
          /\ UNCHANGED outputs
       \/ /\ get_max_turns(config).raised
          /\ Uncaught(get_max_turns(config).value)
          /\ UNCHANGED <<max_turns, stdout>>
    /\ UNCHANGED <<inputs, prompt, model, cmd, total_cost, response_lines, returncode,
                   process>>

(***************************************************************************)
(* run_query, lines 115-152: the command line; is_web_enabled() is called  *)
(* outside the try block.                                                  *)
(***************************************************************************)
StartQuery ==
    /\ pc = "build"
    /\ \/ /\ ~is_web_enabled(config).raised
          /\ cmd' = BuildCmd(Val(prompt), Val(model), argv.system, max_turns,
                             is_web_enabled(config).value, stdoutTty)
          /\ pc' = IF stdoutTty THEN "popen" ELSE "run"
          /\ UNCHANGED outputs
       \/ /\ is_web_enabled(config).raised
          /\ Uncaught(is_web_enabled(config).value)
          /\ UNCHANGED <<cmd, stdout>>
    /\ UNCHANGED <<inputs, prompt, model, max_turns, total_cost, response_lines, returncode,
                   process>>

(***************************************************************************)
(* run_query, lines 199-218 and 220-225: the buffered protocol.            *)
(* subprocess.run drains both pipes and kills the child on timeout.        *)
(***************************************************************************)
RunBuffered ==
    /\ pc = "run"
    /\ \/ /\ ~child.installed
          /\ stderr' = Append(stderr, Msg(NotFoundFmt, <<>>))
          /\ Exit(1)
          /\ UNCHANGED <<returncode, stdout, childState>>
       \/ /\ child.installed /\ child.slow
          /\ childState' = "killed"
          /\ stderr' = Append(stderr, Msg(TimeoutFmt, <<>>))
          /\ Exit(1)
          /\ UNCHANGED <<returncode, stdout>>
       \/ /\ child.installed /\ ~child.slow /\ child.code # 0
          /\ childState' = "reaped"
          /\ returncode' = Some(child.code)
          /\ stderr' = Append(stderr, Msg(FailedFmt, <<child.diag>>))
          /\ Exit(1)
          /\ UNCHANGED stdout
       \/ /\ child.installed /\ ~child.slow /\ child.code = 0
          /\ childState' = "reaped"
          /\ returncode' = Some(child.code)
          /\ stdout' = stdout \o Strip(child.text) \o NL
          /\ \E elapsed \in Elapsed :
                stderr' = Append(stderr, Msg(BufferedMetaFmt,
                                  <<Capitalize(Val(model)), FormatFixed(elapsed, 2)>>))
          /\ Exit(0)
    /\ UNCHANGED <<inputs, prompt, model, max_turns, cmd, total_cost, response_lines,
                   childIp, childOff, outPipe, errPipe>>

(***************************************************************************)
(* run_query, lines 157-166 and 223-225: the streaming protocol starts     *)
(* the child with both its stdout and its stderr on pipes.                 *)
(***************************************************************************)
Popen ==
    /\ pc = "popen"
    /\ \/ /\ ~child.installed
          /\ stderr' = Append(stderr, Msg(NotFoundFmt, <<>>))
          /\ Exit(1)
          /\ UNCHANGED <<total_cost, response_lines, childState>>
       \/ /\ child.installed
          /\ childState' = "running"
          /\ total_cost' = JNum(0)
          /\ response_lines' = <<>>
          /\ pc' = "loop"
          /\ UNCHANGED <<stderr, exitStatus>>
    /\ UNCHANGED <<inputs, prompt, model, max_turns, cmd, returncode, stdout,
                   childIp, childOff, outPipe, errPipe>>

(***************************************************************************)
(* The child, while the caller reads: it performs its script, blocking on  *)
(* a full pipe, then exits (which closes its ends of the pipes).           *)
(***************************************************************************)
ChildRuns == childState = "running" /\ pc = "loop"
ChildOp == child.script[childIp]

ChildWriteOut ==
    /\ ChildRuns /\ childIp <= Len(child.script)
    /\ ChildOp.fd = "out"
    /\ Len(outPipe) < PipeCap
    /\ outPipe' = Append(outPipe, ChildOp.line)
    /\ childIp' = childIp + 1
    /\ UNCHANGED <<inputs, pc, locals, outputs, childState, childOff, errPipe>>

ChildWriteErr ==
    /\ ChildRuns /\ childIp <= Len(child.script)
    /\ ChildOp.fd = "err"
    /\ errPipe < PipeCap
    /\ errPipe' = errPipe + 1
    /\ IF childOff + 1 = ChildOp.n
       THEN childIp' = childIp + 1 /\ childOff' = 0
       ELSE childIp' = childIp /\ childOff' = childOff + 1
    /\ UNCHANGED <<inputs, pc, locals, outputs, childState, outPipe>>

ChildExit ==
    /\ ChildRuns /\ childIp > Len(child.script)
    /\ childState' = "exited"
    /\ UNCHANGED <<inputs, pc, locals, outputs, childIp, childOff, outPipe, errPipe>>

(***************************************************************************)
(* run_query, lines 169-188 and 226-228: one iteration of                  *)
(* "for line in process.stdout".                                           *)
(***************************************************************************)
ReadLine ==
    /\ pc = "loop"
    /\ outPipe # <<>>
    /\ outPipe' = Tail(outPipe)
    /\ LET r == ProcessLine(Head(outPipe)) IN
       \/ /\ r.kind = "text"
          /\ stdout' = stdout \o PyStr(r.text)
          /\ response_lines' = Append(response_lines, r.text)
          /\ UNCHANGED <<pc, total_cost, stderr, exitStatus>>
       \/ /\ r.kind = "cost"
          /\ total_cost' = r.cost
          /\ UNCHANGED <<pc, response_lines, outputs>>
       \/ /\ r.kind \in {"continue", "none"}
          /\ UNCHANGED <<pc, total_cost, response_lines, outputs>>
       \/ /\ r.kind = "raise"
          /\ stderr' = Append(stderr, Msg(ExceptionFmt, <<"AttributeError">>))
          /\ Exit(1)
          /\ UNCHANGED <<total_cost, response_lines, stdout>>
    /\ UNCHANGED <<inputs, prompt, model, max_turns, cmd, returncode,
                   childState, childIp, childOff, errPipe>>

(***************************************************************************)
(* run_query, lines 190-197 and 226-228: end of stream, process.wait(),    *)
(* the final newline and the metadata line.                                *)
(***************************************************************************)
EndOfStream ==
    /\ pc = "loop"
    /\ outPipe = <<>> /\ childState = "exited"
    /\ childState' = "reaped"
    /\ returncode' = Some(child.code)
    /\ stdout' = IF response_lines # <<>> THEN stdout \o NL ELSE stdout
    /\ \/ /\ ~Truthy(total_cost)
          /\ \E elapsed \in Elapsed :
                stderr' = Append(stderr, Msg(MetaFmt,
                    <<Capitalize(Val(model)), FormatFixed(elapsed, 2), <<>> >>))
          /\ Exit(0)
       \/ /\ Truthy(total_cost) /\ total_cost.t = "num"
          /\ \E elapsed \in Elapsed :
                stderr' = Append(stderr, Msg(MetaFmt,
                    <<Capitalize(Val(model)), FormatFixed(elapsed, 2),
                      <<" ","-"," ","$">> \o FormatFixed(total_cost.n, 4)>>))
          /\ Exit(0)
       \/ /\ Truthy(total_cost) /\ total_cost.t # "num"
          /\ stderr' = Append(stderr, Msg(ExceptionFmt, <<"ValueError">>))
          /\ Exit(1)
    /\ UNCHANGED <<inputs, prompt, model, max_turns, cmd, total_cost, response_lines,
                   childIp, childOff, outPipe, errPipe>>

Next ==
    \/ ParseArgs
    \/ GetPrompt
    \/ DetermineModel
    \/ GetMaxTurns
    \/ StartQuery
    \/ RunBuffered
    \/ Popen
    \/ ChildWriteOut
    \/ ChildWriteErr
    \/ ChildExit
    \/ ReadLine
    \/ EndOfStream

Spec == Init /\ [][Next]_vars

SpecStream == InitStream /\ [][Next]_vars


(***************************************************************************)
(* Vocabulary of the properties.                                           *)
(***************************************************************************)
\* a child process was started; cmd is the command line it was given
Launched == childState # "none"
Exited == pc = "exit"
LastArg == cmd[Len(cmd)]
Printed(fmt) == \E i \in 1..Len(stderr) : stderr[i].fmt = fmt
ErrorFmts == {NotFoundFmt, TimeoutFmt, FailedFmt, ExceptionFmt, NoPromptFmt}
Diagnosed == \E i \in 1..Len(stderr) : stderr[i].fmt \in ErrorFmts
\* the argument that follows flag in cmd, None when the flag is not there
FlagValues(flag) == {cmd[i + 1] : i \in {j \in 1..(Len(cmd) - 1) : cmd[j] = Lit(flag)}}

\* the shape of a line, read off the line itself
Field(v, key) == IF v.t = "obj" /\ key \in DOMAIN v.f THEN v.f[key] ELSE JNull
IsTextDeltaEvent(l) ==
    /\ StrEq(Field(l, "type"), STREAM_EVENT)
    /\ StrEq(Field(Field(l, "event"), "type"), CONTENT_BLOCK_DELTA)
    /\ StrEq(Field(Field(Field(l, "event"), "delta"), "type"), TEXT_DELTA)
IsResultEvent(l) == StrEq(Field(l, "type"), RESULT)
IsRecognized(l) == IsTextDeltaEvent(l) \/ IsResultEvent(l)
FragmentOf(l) ==
    LET delta == Field(Field(l, "event"), "delta")
    IN  IF "text" \in DOMAIN delta.f THEN PyStr(delta.f["text"]) ELSE <<>>

\* the lines the child writes to its stdout, in order
RECURSIVE OutLines(_)
OutLines(script) ==
    IF script = <<>> THEN <<>>
    ELSE (IF Head(script).fd = "out" THEN <<Head(script).line>> ELSE <<>>)
         \o OutLines(Tail(script))

RECURSIVE AllFragments(_)
AllFragments(lines) ==
    IF lines = <<>> THEN <<>>
    ELSE (IF IsTextDeltaEvent(Head(lines)) THEN FragmentOf(Head(lines)) ELSE <<>>)
         \o AllFragments(Tail(lines))

RECURSIVE LastCost(_, _)
LastCost(lines, acc) ==
    IF lines = <<>> THEN acc
    ELSE LastCost(Tail(lines),
                  IF IsResultEvent(Head(lines))
                  THEN (IF "total_cost_usd" \in DOMAIN Head(lines).f
                        THEN Head(lines).f["total_cost_usd"] ELSE JNum(0))
                  ELSE acc)

RECURSIVE Joined(_)
Joined(fragments) ==
    IF fragments = <<>> THEN <<>> ELSE PyStr(Head(fragments)) \o Joined(Tail(fragments))

\* a dollar sign followed by a digit
HasDollarAmount(s) == \E i \in 1..(Len(s) - 1) : s[i] = "$" /\ IsDigit(s[i + 1])

(***************************************************************************)
(* C1.  Whenever the child exits with a nonzero status, in the buffered    *)
(* and in the streaming protocol alike, the program ends with exit status  *)
(* 1 and a diagnostic on standard error.                                   *)
(***************************************************************************)
ChildFailureExitsOne ==
    (Exited /\ ~IsNone(returncode) /\ Val(returncode) # 0)
        => (exitStatus = Some(1) /\ Diagnosed)

(***************************************************************************)
(* C2.  In streaming mode, when the run has ended, the accumulated answer  *)
(* and the text printed to standard output (up to its final newline) are   *)
(* the concatenation, in arrival order, of the fragments of exactly the    *)
(* text_delta lines the child wrote, and the recorded cost is the          *)
(* total_cost_usd of the result event.                                     *)
(***************************************************************************)
StreamAnswerIsAllFragments ==
    (Exited /\ stdoutTty /\ Launched)
        => LET answer == AllFragments(OutLines(child.script))
           IN  /\ Joined(response_lines) = answer
               /\ stdout \in {answer, answer \o NL}
               /\ total_cost = LastCost(OutLines(child.script), JNum(0))

\* C2 for a child that writes only recognized events, unparsable lines and
\* objects of other types: there the statement holds
StreamAnswerOfPlainLines ==
    (\A i \in 1..Len(child.script) :
         child.script[i].fd = "out" => child.script[i].line \in PlainLines)
        => StreamAnswerIsAllFragments

(***************************************************************************)
(* C3.  In streaming mode, a stdout line that is not one of the two        *)
(* recognized event shapes is skipped: reading it changes neither the      *)
(* accumulated answer nor the recorded cost nor what was printed, and the  *)
(* loop goes on to the next line.                                          *)
(***************************************************************************)
UnrecognizedLineIsSkipped ==
    [][(pc = "loop" /\ outPipe # <<>> /\ outPipe' = Tail(outPipe)
            /\ ~IsRecognized(Head(outPipe)))
        => (response_lines' = response_lines /\ total_cost' = total_cost
            /\ stdout' = stdout /\ stderr' = stderr /\ pc' = "loop")]_vars

\* the priority order, written out: the first recognized default_model= line
IsModelEntry(line) ==
    /\ StartsWith(Strip(line), KeyDefaultModel)
    /\ InList(Lower(Strip(SplitEq1(line))), MODELS)
FileEntries == {i \in 1..Len(config.lines) : config.access = "ok" /\ IsModelEntry(config.lines[i])}
ExpectedModel ==
    IF ~IsNone(argv.model) THEN Val(argv.model)
    ELSE IF InList(Lower(EnvGet(environ)), MODELS) THEN Lower(EnvGet(environ))
    ELSE IF FileEntries # {}
         THEN Lower(Strip(SplitEq1(config.lines[CHOOSE i \in FileEntries :
                                                     \A j \in FileEntries : i <= j])))
    ELSE Sonnet

(***************************************************************************)
(* C4.  The model passed to the child is one of haiku, sonnet, opus, and   *)
(* is the -m value if given, else the lower-cased ASK_DEFAULT_MODEL if it  *)
(* is one of the three, else the lower-cased value of a default_model=     *)
(* entry of the config file that is one of the three, else sonnet.         *)
(***************************************************************************)
ModelByPriority ==
    /\ ~IsNone(model) => (Val(model) = ExpectedModel /\ InList(Val(model), MODELS))
    /\ Launched => FlagValues("--model") = {Txt(ExpectedModel)}

EnvBeatsFile ==
    /\ Exited /\ Launched /\ IsNone(argv.model)
    /\ environ = Some(<<"H","a","i","k","u">>)
    /\ config.access = "ok" /\ config.lines = <<KeyDefaultModel \o Opus \o NL>>
    /\ cmd[4] = Txt(Haiku)

HasCostSuffix(m) == Len(m.args) >= 3 /\ m.args[3] # <<>>

(***************************************************************************)
(* C5.  In buffered mode, when the child exits 0, the metadata line holds  *)
(* the capitalized model name and the elapsed seconds, and a cost suffix   *)
(* exactly when the child's standard error holds a dollar amount.          *)
(***************************************************************************)
BufferedMetaShowsCost ==
    (Exited /\ ~stdoutTty /\ returncode = Some(0))
        => LET m == stderr[Len(stderr)]
           IN  /\ m.args[1] = Capitalize(Val(model))
               /\ \E e \in Elapsed : m.args[2] = FormatFixed(e, 2)
               /\ HasCostSuffix(m) <=> HasDollarAmount(child.diag)

(***************************************************************************)
(* C6.  With the positional prompt omitted: if standard input is not a     *)
(* terminal the prompt sent to the child is the text read from standard    *)
(* input; if it is a terminal the program fails with the no-prompt         *)
(* diagnostic and exit status 1 and launches no child.                     *)
(* NoPromptOnTerminal is the second half, for a command line argparse      *)
(* accepts.                                                                *)
(***************************************************************************)
NoPromptOnTerminal ==
    (IsNone(argv.prompt) /\ stdin.tty /\ ~InvalidChoice)
        => /\ ~Launched /\ pc \in {"start", "prompt", "exit"}
           /\ Exited => (exitStatus = Some(1) /\ stderr = <<Msg(NoPromptFmt, <<>>)>>)

\* C6 as stated: the prompt sent is the text read from standard input
PromptIsStdinText ==
    /\ (IsNone(argv.prompt) /\ ~stdin.tty /\ Launched) => LastArg = Txt(stdin.text)
    /\ NoPromptOnTerminal

\* C6 as amended: the prompt sent is the text read from standard input,
\* stripped of the whitespace around it; on a terminal, as stated
PromptIsStrippedStdin ==
    /\ (IsNone(argv.prompt) /\ ~stdin.tty /\ Launched) => LastArg = Txt(Strip(stdin.text))
    /\ NoPromptOnTerminal

PipedPromptSent ==
    /\ Exited /\ Launched /\ IsNone(argv.prompt) /\ ~stdin.tty
    /\ stdin.text = <<" ">> \o Hi \o <<" ", "\n">>
    /\ LastArg = Txt(Hi)

(***************************************************************************)
(* C7.  No state of the config file ends the run: get_default_model,       *)
(* get_max_turns and is_web_enabled each return a value instead of         *)
(* raising, and the run goes on to launch the child.                       *)
(***************************************************************************)
ConfigNeverEndsRun ==
    /\ ~Printed(TracebackFmt)
    /\ (Exited /\ ~InvalidChoice /\ ~IsNone(prompt)) => (Launched \/ ~child.installed)

(***************************************************************************)
(* C8.  Every child invocation carries a non-empty prompt as its final     *)
(* argument.                                                               *)
(***************************************************************************)
PromptNonEmpty ==
    Launched => \E p \in {Val(prompt)} : LastArg = Txt(p) /\ p # <<>>

(***************************************************************************)
(* C9.  The turn cap is absent or a positive integer, and the child's      *)
(* command holds --max-turns N only for a resolved cap N >= 1.             *)
(***************************************************************************)
TurnCapPositive ==
    /\ ~IsNone(max_turns) => Val(max_turns) >= 1
    /\ Launched => \A v \in FlagValues("--max-turns") :
                       \E n \in {Val(max_turns)} : v = Txt(Str(n)) /\ n >= 1

ChildBlockedOnStderr ==
    /\ childState = "running" /\ childIp <= Len(child.script)
    /\ ChildOp.fd = "err" /\ errPipe >= PipeCap
CallerBlockedOnStdout == pc = "loop" /\ outPipe = <<>> /\ childState = "running"

(***************************************************************************)
(* C10.  In streaming mode the caller and the child never reach a state    *)
(* where the child is blocked writing to its full standard-error pipe      *)
(* while the caller is blocked reading an empty standard output.           *)
(***************************************************************************)
NoPipeDeadlock == ~(ChildBlockedOnStderr /\ CallerBlockedOnStdout)

=============================================================================
